---- MODULE Spec2Model ----
(***************************************************************************)
(* A model of the MCP stdio test harness of database-mcp:                  *)
(*   src/test-interactive.py  (class MCPTester and main)                   *)
(*   src/debug-sql.py         (test_sql_debug)                             *)
(* The harness spawns the server as a child process, writes JSON-RPC       *)
(* requests to its stdin one line at a time and reads one line of its      *)
(* stdout per request.  The child is an independent process: it may answer *)
(* with any line, close its output, or exit at any moment.                 *)
(***************************************************************************)
EXTENDS Naturals, Integers, Sequences, FiniteSets, TLC

\* ------------------------------------------------------------------ bounds

\* Number of menu inputs the operator types in one interactive run.
MaxMenu == 1
\* Number of times the termination routine is invoked again after the
\* harness has finished (SpecReentry only).
MaxReentry == 1

\* ----------------------------------------------------- requests and lines

ToolNames == {"list_schemas", "list_tables", "describe_table", "run_sql", "explain_sql"}

\* The operator types a connection name; the harness passes it through.
Connections == {"primary", "analytics"}

\* test_run_sql building its arguments without the limit.
ArgKeysNoLimit(name) ==
  CASE name = "list_schemas" -> {"database"}
    [] name = "list_tables" -> {"database", "schema"}
    [] name = "describe_table" -> {"database", "schema", "table"}
    [] name = "run_sql" -> {"database", "query"}
    [] name = "explain_sql" -> {"database", "query"}
    [] OTHER -> {}

\* The key set of "arguments" each test_* method builds.
ArgKeys(name) ==
  CASE name = "list_schemas" -> {"database"}
    [] name = "list_tables" -> {"database", "schema"}
    [] name = "describe_table" -> {"database", "schema", "table"}
    [] name = "run_sql" -> {"database", "query", "limit"}
    [] name = "explain_sql" -> {"database", "query"}
    [] OTHER -> {}

InitializeKeys == {"protocolVersion", "capabilities", "clientInfo"}

NoRequest == [id |-> 0, method |-> "none", name |-> "none", database |-> "none", keys |-> {}]

InitializeCommand ==
  [id |-> 0, method |-> "initialize", name |-> "none", database |-> "none",
   keys |-> InitializeKeys]

ToolCommand(name, database) ==
  [id |-> 0, method |-> "tools/call", name |-> name, database |-> database,
   keys |-> ArgKeys(name)]

\* A script that calls every tool once on each connection.
ScriptOncePerConnection ==
  << ToolCommand("list_schemas", "primary"),
     ToolCommand("list_tables", "primary"),
     ToolCommand("describe_table", "primary"),
     ToolCommand("run_sql", "primary"),
     ToolCommand("explain_sql", "primary"),
     ToolCommand("list_schemas", "analytics"),
     ToolCommand("list_tables", "analytics"),
     ToolCommand("describe_table", "analytics"),
     ToolCommand("run_sql", "analytics"),
     ToolCommand("explain_sql", "analytics") >>

\* The fixed script of run_comprehensive_test after initialize.
Script ==
  << ToolCommand("list_schemas", "primary"),
     ToolCommand("list_tables", "primary"),
     ToolCommand("run_sql", "primary"),
     ToolCommand("run_sql", "primary"),
     ToolCommand("explain_sql", "primary"),
     ToolCommand("list_schemas", "analytics"),
     ToolCommand("list_tables", "analytics"),
     ToolCommand("describe_table", "analytics"),
     ToolCommand("run_sql", "analytics"),
     ToolCommand("run_sql", "analytics"),
     ToolCommand("explain_sql", "analytics") >>

\* One line of the child's stdout, by what json.loads makes of it:
\*   result / error / neither : a JSON object with that member (or neither) and an id
\*   falsy       : valid JSON that Python treats as false (null, {}, 0, [])
\*   scalar      : valid JSON that is a non-zero number (no "in" operator)
\*   undecodable : not valid JSON (json.loads raises)
ObjectKinds == {"result", "error", "neither"}

\* The ids a response line may carry for a request with id rid: the matching
\* id, a stale one (the previous request's) and one never sent.
LineIds(rid) == {i \in {rid - 1, rid, rid + 1} : i >= 1}

Lines(rid) ==
  [kind : ObjectKinds, id : LineIds(rid)]
    \cup {[kind |-> k, id |-> 0] : k \in {"falsy", "scalar", "undecodable"}}

\* Python's None, as send_command returns it.
None == [kind |-> "None", id |-> 0]


\* ------------------------------------------------- send_command, decoded

\* json.loads(response_line.strip()) raises on a line that is not JSON.
Decodes(line) == line.kind # "undecodable"

\* What send_command returns for a non-empty line: the decoded value, or
\* None when json.loads raised (the except branch).  No id is compared.
Returned(line) == IF Decodes(line) THEN line ELSE None

\* The counter incremented for every line read, decoded or not.
NextRequestIdAlways(rid, line) == rid + 1

\* self.request_id += 1 runs only after json.loads succeeded.
NextRequestId(rid, line) == IF Decodes(line) THEN rid + 1 ELSE rid

\* Python truth of a returned value ("if response:").
Truthy(resp) == resp.kind \notin {"None", "falsy"}

\* print_response raising on an error object as well.
PrintRaisesOnError(resp) == resp.kind \in {"scalar", "error"}

\* print_response evaluates "error" in response: a TypeError for a number.
PrintRaises(resp) == resp.kind = "scalar"

\* The entry print_response writes to the operator's log.
PrintEntry(resp) ==
  CASE resp.kind = "error" -> "Error"
    [] resp.kind = "result" -> "Success"
    [] OTHER -> "Raw"

\* initialize returns True exactly when the response is truthy.
InitializeReturns(resp) == Truthy(resp)

\* ------------------------------------------------------------------ state

VARIABLES
  program,      \* which script runs: "test-interactive" or "debug-sql"
  mode,         \* main: "comprehensive" (argv[1] = --comprehensive) or "interactive"
  pc,           \* the harness's position
  exc,          \* the exception propagating to main's handlers, or "none"
  scriptIdx,    \* run_comprehensive_test: index in Script of the call in progress
  frame,        \* the driver function issuing the current call
  menuCount,    \* menu inputs read so far
  choice,       \* interactive_mode: the operator's last menu input
  logged,       \* "Success" entries print_response wrote in the current
                \* (or last) run_comprehensive_test
  process,      \* self.process: "None" or "Popen"
  returncode,   \* Popen.returncode has been collected (poll or wait saw the exit)
  request_id,   \* self.request_id
  child,        \* the OS process: "absent", "running", "exited"
  stdout,       \* the child's output stream: "open" or "eof"
  trapsTerm,    \* the child has ignored a graceful stop signal delivered to it
  sent,         \* the last request written to the child's stdin
  nWritten,     \* requests written so far
  nInit,        \* initialize requests written so far
  awaiting,     \* a written request whose response line has not been read
  response,     \* what the last send_command returned
  cause,        \* how the last send_command ended
  initKind,     \* the kind of the line that answered the last initialize
  initReturned, \* what the last initialize() returned: "none", "True", "False"
  termSent,     \* graceful stop signals delivered to the child
  killSent,     \* kill signals delivered to the child
  cleanups,     \* invocations of the termination routine
  exitCode      \* the harness's exit status, -1 while it runs

control == <<pc, exc, scriptIdx, frame, menuCount>>
session == <<process, returncode, request_id>>
server == <<child, stdout, trapsTerm>>
wire == <<sent, nWritten, nInit, awaiting, response, cause, initKind, initReturned>>
signals == <<termSent, killSent>>
vars == <<program, mode, choice, logged, control, session, server, wire, signals, cleanups, exitCode>>

\* MCPTester.__init__: no process, request_id = 1.  Nothing spawned or written.
Init ==
  /\ program \in {"test-interactive", "debug-sql"}
  /\ mode \in {"comprehensive", "interactive"}
  /\ (program = "debug-sql" => mode = "comprehensive")
  /\ pc = IF program = "test-interactive" THEN "main" ELSE "dbg_spawn"
  /\ exc = "none"
  /\ scriptIdx = 0
  /\ frame = "main"
  /\ menuCount = 0
  /\ choice = "none"
  /\ logged = 0
  /\ process = "None"
  /\ returncode = FALSE
  /\ request_id = 1
  /\ child = "absent"
  /\ stdout = "open"
  /\ trapsTerm = FALSE
  /\ sent = NoRequest
  /\ nWritten = 0
  /\ nInit = 0
  /\ awaiting = FALSE
  /\ response = None
  /\ cause = "none"
  /\ initKind = "none"
  /\ initReturned = "none"
  /\ termSent = 0
  /\ killSent = 0
  /\ cleanups = 0
  /\ exitCode = -1

\* ------------------------------------------------------------- the child

\* The child exits on its own (a crash, a fatal configuration error, end of
\* its input): both pipe ends close.
ChildExit ==
  /\ child = "running"
  /\ child' = "exited"
  /\ stdout' = "eof"
  /\ UNCHANGED <<program, mode, choice, logged, control, session, trapsTerm, wire, signals, cleanups, exitCode>>

\* The child closes its stdout and keeps running (and keeps reading stdin).
ChildCloseStdout ==
  /\ child = "running"
  /\ stdout = "open"
  /\ stdout' = "eof"
  /\ UNCHANGED <<program, mode, choice, logged, control, session, child, trapsTerm, wire, signals, cleanups, exitCode>>

\* The child exits because of a signal: always on a kill, on the graceful
\* stop signal unless it ignored it.
ChildDie ==
  /\ child = "running"
  /\ killSent > 0 \/ (termSent > 0 /\ ~trapsTerm)
  /\ child' = "exited"
  /\ stdout' = "eof"
  /\ UNCHANGED <<program, mode, choice, logged, control, session, trapsTerm, wire, signals, cleanups, exitCode>>


\* ------------------------------------------- MCPTester: calls and returns

\* The driver's code after send_command returned resp to the method that
\* sent cmd (initialize or a test_* method), up to the next point where the
\* harness waits: "if response: self.print_response(response)", then the
\* caller's next statement.  fr is the driver function (run_comprehensive_test
\* or interactive_mode), idx the position in the script.
AfterCall(cmd, resp, fr, idx) ==
  IF Truthy(resp) /\ PrintRaises(resp)
  THEN \* the TypeError leaves every driver function; main's finally runs
       /\ pc' = "cleanup"
       /\ exc' = "Exception"
       /\ frame' = "main"
       /\ scriptIdx' = 0
       /\ UNCHANGED initReturned
  ELSE /\ exc' = exc
       /\ IF cmd.method = "initialize"
          THEN /\ initReturned' = IF InitializeReturns(resp) THEN "True" ELSE "False"
               /\ IF InitializeReturns(resp)
                  THEN IF fr = "run_comprehensive_test"
                       THEN pc' = "script" /\ frame' = fr /\ scriptIdx' = 1
                       ELSE pc' = "menu" /\ frame' = fr /\ scriptIdx' = 0
                  ELSE \* "Failed to initialize": the driver function returns
                       IF fr = "run_comprehensive_test" /\ mode = "interactive"
                       THEN pc' = "menu" /\ frame' = "interactive_mode" /\ scriptIdx' = 0
                       ELSE pc' = "cleanup" /\ frame' = "main" /\ scriptIdx' = 0
          ELSE /\ UNCHANGED initReturned
               /\ IF fr = "run_comprehensive_test"
                  THEN IF idx < Len(Script)
                       THEN pc' = "script" /\ frame' = fr /\ scriptIdx' = idx + 1
                       ELSE IF mode = "interactive"
                            THEN pc' = "menu" /\ frame' = "interactive_mode" /\ scriptIdx' = 0
                            ELSE pc' = "cleanup" /\ frame' = "main" /\ scriptIdx' = 0
                  ELSE pc' = "menu" /\ frame' = fr /\ scriptIdx' = 0

\* The log of run_comprehensive_test starts with its first statement, the
\* call of initialize; any other call leaves it as it is.
LogAtCall(cmd, fr) ==
  IF cmd.method = "initialize" /\ fr = "run_comprehensive_test" THEN 0 ELSE logged

\* The log after the caller handled resp: print_response is called for a
\* truthy response and writes one "Success" entry for a result.
LogAfter(resp, fr) ==
  IF /\ fr = "run_comprehensive_test"
     /\ Truthy(resp)
     /\ ~PrintRaises(resp)
     /\ PrintEntry(resp) = "Success"
  THEN logged + 1
  ELSE logged

\* The write succeeds while the child holds the read end of its stdin.
WriteSucceeds == child = "running"

\* send_command up to the blocking readline: build the command with
\* id = self.request_id, write and flush it.  Without a process it returns
\* None at once; a failed write (BrokenPipeError) is caught and returns None.
send_command(cmd, fr, idx) ==
  IF process = "None"
  THEN /\ response' = None
       /\ cause' = "no_process"
       /\ logged' = LogAtCall(cmd, fr)
       /\ UNCHANGED <<sent, nWritten, nInit, awaiting, initKind>>
       /\ AfterCall(cmd, None, fr, idx)
  ELSE IF ~WriteSucceeds
  THEN /\ response' = None
       /\ cause' = "write_error"
       /\ logged' = LogAtCall(cmd, fr)
       /\ UNCHANGED <<sent, nWritten, nInit, awaiting, initKind>>
       /\ AfterCall(cmd, None, fr, idx)
  ELSE /\ sent' = [cmd EXCEPT !.id = request_id]
       /\ nWritten' = nWritten + 1
       /\ nInit' = IF cmd.method = "initialize" THEN nInit + 1 ELSE nInit
       /\ awaiting' = TRUE
       /\ response' = None
       /\ cause' = "pending"
       /\ logged' = LogAtCall(cmd, fr)
       /\ pc' = "read"
       /\ frame' = fr
       /\ scriptIdx' = idx
       /\ UNCHANGED <<exc, initKind, initReturned>>

\* send_command from readline on: an empty string at end of stream returns
\* None; a line is decoded, the counter incremented and the value returned;
\* a line json.loads rejects returns None.  Then the caller goes on.
ReadResponse ==
  /\ pc = "read"
  /\ program = "test-interactive"
  /\ IF stdout = "eof"
     THEN /\ response' = None
          /\ cause' = "eof"
          /\ UNCHANGED <<request_id, awaiting, initKind, logged>>
          /\ AfterCall(sent, None, frame, scriptIdx)
     ELSE \E line \in Lines(sent.id) :
          /\ response' = Returned(line)
          /\ cause' = IF Decodes(line) THEN "decoded" ELSE "undecodable"
          /\ request_id' = NextRequestId(request_id, line)
          /\ awaiting' = FALSE
          /\ initKind' = IF sent.method = "initialize" THEN line.kind ELSE initKind
          /\ logged' = LogAfter(Returned(line), frame)
          /\ AfterCall(sent, Returned(line), frame, scriptIdx)
  /\ UNCHANGED <<program, mode, choice, menuCount, process, returncode, server,
                 sent, nWritten, nInit, signals, cleanups, exitCode>>


\* ------------------------------------------------ test-interactive.py main

\* Every exception swallowed: the status is always 0.
ExitStatusZero(e) == 0

\* The exit status main ends with, by the exception that reached it:
\* KeyboardInterrupt is caught, SystemExit(1) and any other exception are not.
ExitStatus(e) == IF e \in {"none", "KeyboardInterrupt"} THEN 0 ELSE 1

\* main before the tester exists: the binary check and the docker check
\* call sys.exit(1) outside the try block.
main ==
  /\ pc = "main"
  /\ \E pre \in {"ok", "no_binary", "docker_error"} :
       IF pre = "ok"
       THEN pc' = "start_server" /\ exitCode' = exitCode
       ELSE pc' = "exited" /\ exitCode' = 1
  /\ UNCHANGED <<program, mode, choice, logged, exc, scriptIdx, frame, menuCount, session, server,
                 wire, signals, cleanups>>

\* start_server up to the sleep: Popen either raises (caught: return False,
\* and main calls sys.exit(1) inside the try block) or spawns the child.
start_server ==
  /\ pc = "start_server"
  /\ \E spawned \in BOOLEAN :
       IF spawned
       THEN /\ process' = "Popen"
            /\ child' = "running"
            /\ pc' = "poll"
            /\ exc' = exc
       ELSE /\ pc' = "cleanup"
            /\ exc' = "SystemExit"
            /\ UNCHANGED <<process, child>>
  /\ UNCHANGED <<program, mode, choice, logged, scriptIdx, frame, menuCount, returncode, request_id,
                 stdout, trapsTerm, wire, signals, cleanups, exitCode>>

\* start_server after the sleep: poll() collects the status of a child that
\* has exited (return False, sys.exit(1)); otherwise return True.
start_server_poll ==
  /\ pc = "poll"
  /\ IF child = "exited"
     THEN returncode' = TRUE /\ pc' = "cleanup" /\ exc' = "SystemExit"
     ELSE returncode' = returncode /\ pc' = "dispatch" /\ exc' = exc
  /\ UNCHANGED <<program, mode, choice, logged, scriptIdx, frame, menuCount, process, request_id,
                 server, wire, signals, cleanups, exitCode>>

\* initialize, called first by both driver functions.
initialize(fr) == send_command(InitializeCommand, fr, 0)

\* main calls run_comprehensive_test (--comprehensive): it starts with initialize.
run_comprehensive_test ==
  /\ pc = "dispatch"
  /\ mode = "comprehensive"
  /\ initialize("run_comprehensive_test")
  /\ UNCHANGED <<program, mode, choice, menuCount, session, server, signals, cleanups, exitCode>>

\* main calls interactive_mode: it starts with initialize.
interactive_mode ==
  /\ pc = "dispatch"
  /\ mode = "interactive"
  /\ initialize("interactive_mode")
  /\ UNCHANGED <<program, mode, choice, menuCount, session, server, signals, cleanups, exitCode>>

\* The next scripted call of run_comprehensive_test.
ScriptCall ==
  /\ pc = "script"
  /\ send_command(Script[scriptIdx], "run_comprehensive_test", scriptIdx)
  /\ UNCHANGED <<program, mode, choice, menuCount, session, server, signals, cleanups, exitCode>>

\* ------------------------------------------------------ the interactive menu

\* What the operator may type for the limit of choice 5: nothing (10 is
\* used), digits, or text int() rejects.
LimitInputs == {"empty", "digits", "text"}

\* Choices 1 to 6: one test_* call with the operator's arguments.
MenuToolCall ==
  /\ pc = "menu"
  /\ menuCount < MaxMenu
  /\ menuCount' = menuCount + 1
  /\ \E c \in {"1", "2", "3", "4", "5", "6"}, conn \in Connections, limit \in LimitInputs :
       /\ choice' = c
       /\ (c = "1" => conn = "primary")
       /\ (c = "2" => conn = "analytics")
       /\ (c # "5" => limit = "empty")
       /\ IF c = "5" /\ limit = "text"
          THEN \* int(limit) raises ValueError before anything is sent
               /\ pc' = "cleanup"
               /\ exc' = "Exception"
               /\ frame' = "main"
               /\ UNCHANGED <<scriptIdx, wire, logged>>
          ELSE send_command(
                 ToolCommand(CASE c \in {"1", "2"} -> "list_schemas"
                               [] c = "3" -> "list_tables"
                               [] c = "4" -> "describe_table"
                               [] c = "5" -> "run_sql"
                               [] c = "6" -> "explain_sql", conn),
                 "interactive_mode", 0)
  /\ UNCHANGED <<program, mode, session, server, signals, cleanups, exitCode>>

\* Choice 7: run_comprehensive_test from the menu, initialize included.
MenuComprehensive ==
  /\ pc = "menu"
  /\ menuCount < MaxMenu
  /\ menuCount' = menuCount + 1
  /\ choice' = "7"
  /\ initialize("run_comprehensive_test")
  /\ UNCHANGED <<program, mode, session, server, signals, cleanups, exitCode>>

\* Choice 8: break; interactive_mode returns to main.
MenuExit ==
  /\ pc = "menu"
  /\ pc' = "cleanup"
  /\ frame' = "main"
  /\ choice' = "8"
  /\ UNCHANGED <<program, mode, logged, exc, scriptIdx, menuCount, session, server, wire,
                 signals, cleanups, exitCode>>

\* An unrecognized input taken as the exit choice.
MenuInvalidBreaks ==
  /\ pc = "menu"
  /\ menuCount < MaxMenu
  /\ menuCount' = menuCount + 1
  /\ choice' = "other"
  /\ pc' = "cleanup"
  /\ frame' = "main"
  /\ UNCHANGED <<program, mode, logged, exc, scriptIdx, session, server, wire,
                 signals, cleanups, exitCode>>

\* Any other input: "Invalid choice", and the loop prompts again.
MenuInvalid ==
  /\ pc = "menu"
  /\ menuCount < MaxMenu
  /\ menuCount' = menuCount + 1
  /\ choice' = "other"
  /\ UNCHANGED <<program, mode, logged, pc, exc, scriptIdx, frame, session, server, wire,
                 signals, cleanups, exitCode>>

\* input() raises EOFError when the operator's input is closed.
MenuInputError ==
  /\ pc = "menu"
  /\ pc' = "cleanup"
  /\ exc' = "Exception"
  /\ frame' = "main"
  /\ UNCHANGED <<program, mode, choice, logged, scriptIdx, menuCount, session, server, wire,
                 signals, cleanups, exitCode>>

\* The operator interrupts the harness where it waits: in start_server's
\* sleep, in readline, at the prompt.  main catches KeyboardInterrupt.
Interrupt ==
  /\ program = "test-interactive"
  /\ pc \in {"poll", "read", "menu"}
  /\ pc' = "cleanup"
  /\ exc' = "KeyboardInterrupt"
  /\ frame' = "main"
  /\ UNCHANGED <<program, mode, choice, logged, scriptIdx, menuCount, session, server, wire,
                 signals, cleanups, exitCode>>


\* ------------------------------------------------------------ termination

\* The signal goes out whenever a process handle exists, whether or not
\* its exit status has been collected.
SignalUnchecked == process = "Popen"

\* Popen.terminate and Popen.kill poll first and deliver the signal only
\* while no exit status has been collected and the child still runs.
SignalDelivered == ~returncode /\ child = "running"

\* Popen.poll, and a wait that returns: the exit status of an exited child
\* is collected.
Collected == returncode \/ child = "exited"

\* Popen.terminate(): the graceful stop signal, which the child either
\* handles (it will exit) or ignores.
Terminate ==
  /\ returncode' = Collected
  /\ IF SignalDelivered
     THEN /\ termSent' = termSent + 1
          /\ \E ignores \in BOOLEAN : trapsTerm' = ignores
     ELSE UNCHANGED <<termSent, trapsTerm>>

\* cleanup, first statement: nothing to do without a process; otherwise
\* self.process.terminate().
cleanup ==
  /\ pc = "cleanup"
  /\ cleanups' = cleanups + 1
  /\ IF process = "None"
     THEN /\ pc' = "exited"
          /\ exitCode' = ExitStatus(exc)
          /\ UNCHANGED <<returncode, termSent, trapsTerm>>
     ELSE /\ pc' = "cleanup_wait"
          /\ Terminate
          /\ exitCode' = exitCode
  /\ UNCHANGED <<program, mode, choice, logged, exc, scriptIdx, frame, menuCount, process, request_id,
                 child, stdout, wire, killSent>>

\* self.process.wait(timeout=3): returns once the child has exited, raises
\* TimeoutExpired when the three seconds pass first.
cleanup_wait ==
  /\ pc = "cleanup_wait"
  /\ IF child = "exited"
     THEN returncode' = TRUE /\ pc' = "exited" /\ exitCode' = ExitStatus(exc)
     ELSE returncode' = returncode /\ pc' = "cleanup_kill" /\ exitCode' = exitCode
  /\ UNCHANGED <<program, mode, choice, logged, exc, scriptIdx, frame, menuCount, process, request_id,
                 server, wire, signals, cleanups>>

\* except subprocess.TimeoutExpired: self.process.kill().
cleanup_kill ==
  /\ pc = "cleanup_kill"
  /\ returncode' = Collected
  /\ killSent' = IF SignalDelivered THEN killSent + 1 ELSE killSent
  /\ pc' = "cleanup_wait_final"
  /\ UNCHANGED <<program, mode, choice, logged, exc, scriptIdx, frame, menuCount, process, request_id,
                 server, wire, termSent, cleanups, exitCode>>

\* self.process.wait() after the kill: blocks until the child has exited.
cleanup_wait_final ==
  /\ pc = "cleanup_wait_final"
  /\ child = "exited"
  /\ returncode' = TRUE
  /\ pc' = "exited"
  /\ exitCode' = ExitStatus(exc)
  /\ UNCHANGED <<program, mode, choice, logged, exc, scriptIdx, frame, menuCount, process, request_id,
                 server, wire, signals, cleanups>>

\* ------------------------------------------------ debug-sql.py test_sql_debug

\* Popen, outside any try block: a failure to spawn ends the script.
DbgSpawn ==
  /\ pc = "dbg_spawn"
  /\ \E spawned \in BOOLEAN :
       IF spawned
       THEN /\ process' = "Popen"
            /\ child' = "running"
            /\ pc' = "dbg_sleep"
            /\ UNCHANGED <<exc, exitCode>>
       ELSE /\ pc' = "exited"
            /\ exc' = "Exception"
            /\ exitCode' = 1
            /\ UNCHANGED <<process, child>>
  /\ UNCHANGED <<program, mode, choice, logged, scriptIdx, frame, menuCount, returncode, request_id,
                 stdout, trapsTerm, wire, signals, cleanups>>

\* process.stdin.write + flush of a command with a literal id.  A
\* BrokenPipeError is not caught: the script ends there.
DbgWrite(cmd, id, next) ==
  IF WriteSucceeds
  THEN /\ sent' = [cmd EXCEPT !.id = id]
       /\ nWritten' = nWritten + 1
       /\ nInit' = IF cmd.method = "initialize" THEN nInit + 1 ELSE nInit
       /\ awaiting' = TRUE
       /\ pc' = next
       /\ UNCHANGED <<exc, exitCode, cause>>
  ELSE /\ pc' = "exited"
       /\ exc' = "Exception"
       /\ exitCode' = 1
       /\ cause' = "write_error"
       /\ UNCHANGED <<sent, nWritten, nInit, awaiting>>

\* process.stdout.readline(), printed as it is: nothing is decoded.
DbgRead(next) ==
  /\ IF stdout = "eof"
     THEN cause' = "eof" /\ UNCHANGED <<awaiting, initKind>>
     ELSE \E line \in Lines(sent.id) :
            /\ cause' = "raw"
            /\ awaiting' = FALSE
            /\ initKind' = IF sent.method = "initialize" THEN line.kind ELSE initKind
  /\ pc' = next

DbgInitialize ==
  /\ pc = "dbg_sleep"
  /\ DbgWrite(InitializeCommand, 1, "dbg_read_init")
  /\ UNCHANGED <<program, mode, choice, logged, scriptIdx, frame, menuCount, session, server,
                 response, initKind, initReturned, signals, cleanups>>

DbgReadInit ==
  /\ pc = "dbg_read_init"
  /\ DbgRead("dbg_sql")
  /\ UNCHANGED <<program, mode, choice, logged, exc, scriptIdx, frame, menuCount, session, server,
                 sent, nWritten, nInit, response, initReturned, signals,
                 cleanups, exitCode>>

DbgSql ==
  /\ pc = "dbg_sql"
  /\ DbgWrite(ToolCommand("run_sql", "primary"), 2, "dbg_read_sql")
  /\ UNCHANGED <<program, mode, choice, logged, scriptIdx, frame, menuCount, session, server,
                 response, initKind, initReturned, signals, cleanups>>

DbgReadSql ==
  /\ pc = "dbg_read_sql"
  /\ DbgRead("dbg_terminate")
  /\ UNCHANGED <<program, mode, choice, logged, exc, scriptIdx, frame, menuCount, session, server,
                 sent, nWritten, nInit, response, initReturned, signals,
                 cleanups, exitCode>>

\* process.terminate()
DbgTerminate ==
  /\ pc = "dbg_terminate"
  /\ cleanups' = cleanups + 1
  /\ Terminate
  /\ pc' = "dbg_wait"
  /\ UNCHANGED <<program, mode, choice, logged, exc, scriptIdx, frame, menuCount, process, request_id,
                 child, stdout, wire, killSent, exitCode>>

\* process.wait(), with no timeout: blocks until the child has exited.
DbgWait ==
  /\ pc = "dbg_wait"
  /\ child = "exited"
  /\ returncode' = TRUE
  /\ pc' = "exited"
  /\ exitCode' = 0
  /\ UNCHANGED <<program, mode, choice, logged, exc, scriptIdx, frame, menuCount, process, request_id,
                 server, wire, signals, cleanups>>

\* An interrupt while the script sleeps or blocks: nothing catches it and
\* the script ends with a non-zero status.
DbgInterrupt ==
  /\ pc \in {"dbg_sleep", "dbg_read_init", "dbg_read_sql", "dbg_wait"}
  /\ pc' = "exited"
  /\ exc' = "KeyboardInterrupt"
  /\ exitCode' = 1
  /\ UNCHANGED <<program, mode, choice, logged, scriptIdx, frame, menuCount, session, server, wire,
                 signals, cleanups>>

\* ----------------------------------------------------------- specification

Next ==
  \/ main
  \/ start_server
  \/ start_server_poll
  \/ run_comprehensive_test
  \/ interactive_mode
  \/ ScriptCall
  \/ ReadResponse
  \/ MenuToolCall
  \/ MenuComprehensive
  \/ MenuExit
  \/ MenuInvalid
  \/ MenuInputError
  \/ Interrupt
  \/ cleanup
  \/ cleanup_wait
  \/ cleanup_kill
  \/ cleanup_wait_final
  \/ DbgSpawn
  \/ DbgInitialize
  \/ DbgReadInit
  \/ DbgSql
  \/ DbgReadSql
  \/ DbgTerminate
  \/ DbgWait
  \/ DbgInterrupt
  \/ ChildExit
  \/ ChildCloseStdout
  \/ ChildDie

Spec == Init /\ [][Next]_vars

\* A test that calls cleanup again on a finished MCPTester session.
CleanupAgain ==
  /\ program = "test-interactive"
  /\ pc = "exited"
  /\ cleanups >= 1
  /\ cleanups <= MaxReentry
  /\ pc' = "cleanup"
  /\ UNCHANGED <<program, mode, choice, logged, exc, scriptIdx, frame, menuCount, session, server, wire,
                 signals, cleanups, exitCode>>

NextReentry == Next \/ CleanupAgain

SpecReentry == Init /\ [][NextReentry]_vars

\* The harness against a stub server: the child answers every request with
\* a result that carries the request's id, and stops only when signalled.
StubResponse ==
  /\ ReadResponse
  /\ response'.kind = "result"
  /\ response'.id = sent.id

NextStub ==
  \/ main
  \/ start_server
  \/ start_server_poll
  \/ run_comprehensive_test
  \/ interactive_mode
  \/ ScriptCall
  \/ StubResponse
  \/ MenuToolCall
  \/ MenuComprehensive
  \/ MenuExit
  \/ MenuInvalid
  \/ MenuInputError
  \/ Interrupt
  \/ cleanup
  \/ cleanup_wait
  \/ cleanup_kill
  \/ cleanup_wait_final
  \/ ChildDie

SpecStub == Init /\ [][NextStub]_vars


\* ------------------------------------------------------------- properties

Tester == program = "test-interactive"

\* A step that writes a request to the child's stdin.
Writes == nWritten' > nWritten

\* The session is Ready: the last initialize was answered with a result and
\* the termination routine has not been entered.
Ready == initKind = "result" /\ cleanups = 0 /\ termSent = 0 /\ killSent = 0

\* C1: the response a send_command call returns carries the id of the
\* request that call wrote; a line with another id is never returned.
C1_ResponseIdMatches ==
  (Tester /\ cause = "decoded" /\ response.kind \in ObjectKinds) => response.id = sent.id

\* C2: the ids of the written requests start at 1 and each is exactly one
\* greater than the id written before it, whatever calls failed in between.
C2_IdsIncreaseByOne ==
  [][(Tester /\ Writes) => sent'.id = sent.id + 1]_vars

\* C3: a tools/call request is written only while the session is Ready.
C3_ToolCallOnlyWhenReady ==
  [][(Tester /\ Writes /\ sent'.method = "tools/call") => Ready]_vars

\* C4: initialize returns True only if the line that answered the initialize
\* request holds a result.
C4_InitializeSuccessNeedsResult ==
  (Tester /\ initReturned = "True") => initKind = "result"

\* C5: initialize is written at most once per child, and before any
\* tools/call request.
C5_InitializeOnce ==
  Tester => /\ nInit <= 1
            /\ (sent.method = "tools/call" => nInit >= 1)

\* C6: a request is written only when the response line of every request
\* written before it has been read.
C6_SingleOutstanding ==
  [][Writes => ~awaiting]_vars

\* C7: once the child has been spawned, the harness exits only after the
\* termination routine ran, and the child has exited by then.
C7_TerminatedBeforeExit ==
  (pc = "exited" /\ child # "absent") => (cleanups >= 1 /\ child = "exited")

\* The termination routine has returned to its caller.
TerminationReturned ==
  /\ pc = "exited"
  /\ cleanups >= 1
  /\ process = "Popen"
  /\ (program = "debug-sql" => exc = "none")

\* The termination routine blocks in a wait that has no timeout.
UntimedWait == pc \in {"cleanup_wait_final", "dbg_wait"}

\* C8: termination sends the stop signal first and a kill only afterwards,
\* returns only with the child's exit status collected, and never waits
\* without a time limit on a running child that ignored the stop signal
\* unless it has sent the kill: so it always completes.
C8_TerminationCompletes ==
  /\ (killSent > 0 => termSent > 0)
  /\ (TerminationReturned => (returncode /\ child = "exited"))
  /\ ((UntimedWait /\ child = "running" /\ trapsTerm) => killSent > 0)

\* A step of an invocation of cleanup that follows a completed one.
SecondCleanupStep ==
  /\ Tester
  /\ \/ pc = "cleanup" /\ cleanups >= 1
     \/ pc \in {"cleanup_wait", "cleanup_kill", "cleanup_wait_final"} /\ cleanups >= 2

\* C9: cleanup invoked again on a terminated session sends no stop or kill
\* signal, raises nothing and leaves the session as it was.
C9_CleanupIdempotent ==
  [][SecondCleanupStep =>
       /\ signals' = signals
       /\ session' = session
       /\ server' = server
       /\ exc' = exc
       /\ exitCode' = exitCode
       /\ pc' \in {"cleanup_wait", "exited"}]_vars

\* C9 witness: a second cleanup has completed on a session whose child the
\* first cleanup stopped with a signal.
C9_Witness ==
  /\ Tester
  /\ pc = "exited"
  /\ cleanups = 2
  /\ termSent = 1
  /\ child = "exited"

\* C10: a call that met the end of the child's output returns an outcome
\* its caller can tell apart from the outcome of an undecodable line.
C10_EofDistinctFromUndecodable ==
  (Tester /\ cause = "eof") => response # Returned([kind |-> "undecodable", id |-> 0])


\* C11: after a call met the end of the child's output, no scripted or
\* menu-driven request is written any more, and the termination routine is
\* invoked at most once.
C11_EndOfStreamIsFatal ==
  [][Tester => /\ (cause = "eof" => ~Writes)
               /\ cleanups' <= 1]_vars

\* A decoded line that violates the protocol for the request req: an object
\* with neither result nor error, or an object with another id.
ProtocolViolation(resp, req) ==
  \/ resp.kind = "neither"
  \/ resp.kind \in ObjectKinds /\ resp.id # req.id

\* C12: a line that is not JSON, an object with neither result nor error and
\* an object with another id each make the call fail: no response is
\* returned for it, and the next call goes on with the next id.
C12_DecodingFailuresFail ==
  Tester => /\ (cause = "undecodable" => response = None)
            /\ (cause = "decoded" => ~ProtocolViolation(response, sent))

\* A step in which a scripted tool call of run_comprehensive_test gets a
\* JSON-RPC error object as its response.
ScriptErrorStep ==
  /\ Tester
  /\ pc = "read"
  /\ frame = "run_comprehensive_test"
  /\ sent.method = "tools/call"
  /\ cause' = "decoded"
  /\ response'.kind = "error"

\* C13: a JSON-RPC error answering a scripted call, at any position, does
\* not abort the script: the harness goes on to the next scripted call, and
\* from there it writes that call to a child that still reads its input.
C13_ErrorDoesNotAbortScript ==
  [][/\ (ScriptErrorStep /\ scriptIdx < Len(Script)) =>
          (pc' = "script" /\ scriptIdx' = scriptIdx + 1 /\ exc' = exc)
     /\ (Tester /\ pc = "script" /\ pc' # "script" /\ child = "running") =>
          /\ Writes
          /\ pc' = "read"
          /\ sent'.method = "tools/call"
          /\ sent'.name = Script[scriptIdx].name
          /\ sent'.database = Script[scriptIdx].database]_vars

\* C13 witness: describe_table, the eighth scripted call, was answered with
\* an error and the script stands at its ninth call.
C13_Witness ==
  /\ Tester
  /\ mode = "comprehensive"
  /\ pc = "script"
  /\ scriptIdx = 9
  /\ cause = "decoded"
  /\ response.kind = "error"
  /\ sent.name = "describe_table"


\* The harness ended because the child executable was missing, could not be
\* prepared (main's checks, before the tester exists) or could not be
\* started (start_server returned False).
StartFailed == cleanups = 0 \/ exc = "SystemExit"

ProtocolArguments ==
  [n \in ToolNames |->
     CASE n = "list_schemas" -> {"database"}
       [] n = "list_tables" -> {"database", "schema"}
       [] n = "describe_table" -> {"database", "schema", "table"}
       [] n = "run_sql" -> {"database", "query", "limit"}
       [] n = "explain_sql" -> {"database", "query"}]

\* C17: every written request is initialize or tools/call, and a tools/call
\* names one of the five tools with exactly that tool's argument keys.
C17_RequestShapes ==
  sent # NoRequest =>
    /\ sent.method \in {"initialize", "tools/call"}
    /\ sent.method = "tools/call" =>
         /\ sent.name \in ToolNames
         /\ sent.keys = ProtocolArguments[sent.name]

\* C17 witness: run_sql has been written from the menu.
C17_Witness ==
  /\ Tester
  /\ mode = "interactive"
  /\ frame = "interactive_mode"
  /\ sent.method = "tools/call"
  /\ sent.name = "run_sql"
  /\ nWritten = 2

\* start_server found the child exited after the startup sleep.
ChildExitedAtStart == Tester /\ exc = "SystemExit" /\ process = "Popen"

\* C18: when the child has exited by the end of the startup sleep, no
\* request is ever written, cleanup runs on the exited child without
\* sending a signal or raising, and the harness exits with code 1.
C18_ExitedAtStart ==
  ChildExitedAtStart =>
    /\ nWritten = 0
    /\ sent = NoRequest
    /\ termSent = 0 /\ killSent = 0
    /\ returncode /\ child = "exited"
    /\ pc \in {"cleanup", "cleanup_wait", "exited"}
    /\ pc = "exited" => (exitCode = 1 /\ cleanups = 1)

\* C18 witness: the harness has exited after such a start.
C18_Witness == ChildExitedAtStart /\ pc = "exited"

\* The ways send_command ends without a response.
CallFailures == {"no_process", "write_error", "eof", "undecodable"}

\* C19: send_command changes request_id only by adding 1, and only when a
\* non-empty line was read and decoded; a call that ends in one of the
\* failures returns None and leaves request_id and the process handle alone.
C19_CounterFrame ==
  [][Tester =>
       /\ request_id' # request_id =>
            /\ request_id' = request_id + 1
            /\ pc = "read" /\ stdout = "open"
            /\ cause' = "decoded"
       /\ cause' \in CallFailures =>
            /\ response' = None
            /\ request_id' = request_id
            /\ process' = process]_vars

\* C19 witness: the second request was answered with an undecodable line
\* and the counter still holds its id.
C19_Witness ==
  /\ Tester
  /\ cause = "undecodable"
  /\ sent.id = 2
  /\ request_id = 2
  /\ response = None

\* run_comprehensive_test, called by main, has returned to main without an
\* exception.
ComprehensiveReturned ==
  /\ Tester
  /\ mode = "comprehensive"
  /\ process = "Popen"
  /\ exc = "none"
  /\ pc \in {"cleanup", "cleanup_wait", "cleanup_kill", "cleanup_wait_final", "exited"}

\* C14 as stated: against a server that answers every call with a result,
\* comprehensive mode does not raise, and the log of the completed run holds
\* two connections times five operation types = 10 result entries.
C14_TenEntries ==
  (Tester /\ mode = "comprehensive") =>
     /\ exc # "Exception"
     /\ ComprehensiveReturned => logged = Cardinality(Connections) * Cardinality(ToolNames)

\* C14 amended: against a server that answers every call with a result,
\* comprehensive mode does not raise, and the log of the completed run holds
\* one result entry per request written: one for initialize and one for each
\* of the 11 calls of the script, 12 in all.
C14_EntryPerRequest ==
  (Tester /\ mode = "comprehensive") =>
     /\ exc # "Exception"
     /\ ComprehensiveReturned =>
          /\ nWritten = Len(Script) + 1
          /\ logged = nWritten
          /\ logged = 12

\* C14 witness: a comprehensive run against the stub server completed and
\* the harness exited with its log full.
C14_Witness == ComprehensiveReturned /\ pc = "exited" /\ logged = 12

\* C15: a menu input that is not a recognized choice writes no request,
\* leaves the next request id, the process handle and the child alone, sends
\* no signal, raises nothing, and the loop is at its prompt again.
C15_InvalidChoiceNoEffect ==
  [][(Tester /\ pc = "menu" /\ menuCount' > menuCount /\ choice' = "other") =>
       /\ ~Writes
       /\ sent' = sent
       /\ request_id' = request_id
       /\ process' = process
       /\ returncode' = returncode
       /\ child' = child
       /\ signals' = signals
       /\ exc' = exc
       /\ pc' = "menu"
       /\ frame' = frame]_vars

\* C15 witness: the operator typed an unrecognized input to a running
\* session and the loop is at its prompt.
C15_Witness ==
  /\ Tester
  /\ pc = "menu"
  /\ choice = "other"
  /\ menuCount = 1
  /\ child = "running"
  /\ request_id = 2

====
